---- MODULE Spec2Model ----
(***************************************************************************)
(* Queue-based rate limiter of app/core/rate_limiter.py: RateLimiter      *)
(* (sliding window of admission timestamps, asyncio.Queue of futures,     *)
(* background _process_queue task) and UserRateLimiter (per-user          *)
(* registry).                                                             *)
(*                                                                         *)
(* Scheduling: every coroutine runs on one asyncio event loop, so the     *)
(* code between two suspension points is one atomic action.  Suspension   *)
(* points are: Queue.put on a full queue, `await future`, Queue.get on an *)
(* empty queue, asyncio.sleep.                                             *)
(*                                                                         *)
(* Time: one clock tick is a tenth of a second.  time.time() is the       *)
(* variable now.  Once the clock reaches MaxTime the time origin moves    *)
(* with the clock (every stored time is shifted down instead of now going *)
(* up); the code only compares differences of times, and a stored time    *)
(* older than now - time_window - 1 is kept at that value.  The scenario  *)
(* specification keeps the clock absolute, up to ScenarioHorizon.         *)
(***************************************************************************)
EXTENDS Integers, Sequences, FiniteSets, TLC

\* ---------------------------------------------------------------- bounds
NumCallers == 3
NumRegistryCallers == 2
NumLiveCallers == 2
MaxInstances == 2
MaxTime == 2
ScenarioHorizon == 612

\* ------------------------------------------------------ program constants
\* asyncio.sleep(min(wait_time, 1.0)): one second, in ticks
OneSecond == 10
\* asyncio.sleep(0.1): a tenth of a second, in ticks
TenthSecond == 1

Callers == 1..NumCallers
RegistryCallers == 1..NumRegistryCallers
LiveCallers == 1..NumLiveCallers
Instances == 1..MaxInstances
Keys == {"A", "B"}
NoCaller == 0
ReleaserThread == 0
NoUser == "-"

VARIABLES
    now,                 \* time.time()
    reg,                 \* UserRateLimiter: max_requests, time_window, max_queue_size
    limiters,            \* UserRateLimiter.limiters: user_id -> instance
    instances,           \* number of RateLimiter objects constructed so far
    max_requests,        \* per instance: self.max_requests
    time_window,         \* per instance: self.time_window (ticks)
    max_queue_size,      \* per instance: self.max_queue_size
    request_timestamps,  \* per instance: the deque of admission timestamps
    request_queue,       \* per instance: items of the asyncio.Queue (futures, named by caller)
    putters,             \* per instance: Queue._putters, callers suspended in put()
    rel_pc,              \* per instance: where the _process_queue task stands
    held,                \* per instance: the future _process_queue took and has not resolved
    wake_at,             \* per instance: when the task's asyncio.sleep ends
    pc,                  \* per caller: where its request stands
    user,                \* per caller: the user_id of its limit_for_user call, if any
    lim,                 \* per caller: the RateLimiter its limit() is bound to
    future_done,         \* per caller: its future has a result
    lock,                \* the threads inside `with self.lock` of the global limiter
    local_time,          \* per thread: the local current_time of limit / _wait_for_token
    admitted,            \* history: per instance, admission times still within time_window of now
    enqueued,            \* history: per instance, callers in the order their futures entered the queue
    built                \* history: per user_id, how many RateLimiters get_limiter constructed

vars == <<now, reg, limiters, instances, max_requests, time_window, max_queue_size,
          request_timestamps, request_queue, putters, rel_pc, held, wake_at,
          pc, user, lim, future_done, lock, local_time, admitted, enqueued,
          built>>

Min(a, b) == IF a < b THEN a ELSE b
Max(a, b) == IF a > b THEN a ELSE b

\* ------------------------------------------------------------ the window
\* variant: `if` in place of `while`: one pass drops at most one timestamp
PruneOnePop(w, current_time, tw) ==
    IF w # <<>> /\ w[1] < current_time - tw THEN Tail(w) ELSE w

\* variant: a timestamp exactly time_window old is dropped too
RECURSIVE PruneInclusive(_, _, _)
PruneInclusive(w, current_time, tw) ==
    IF w # <<>> /\ w[1] <= current_time - tw
    THEN PruneInclusive(Tail(w), current_time, tw)
    ELSE w

\* while self.request_timestamps and self.request_timestamps[0] < current_time - self.time_window: popleft()
RECURSIVE Prune(_, _, _)
Prune(w, current_time, tw) ==
    IF w # <<>> /\ w[1] < current_time - tw
    THEN Prune(Tail(w), current_time, tw)
    ELSE w

\* variant: the new timestamp goes to the front (appendleft)
DequeAppendLeft(w, x, maxlen) ==
    IF Len(w) >= maxlen THEN <<x>> \o SubSeq(w, 1, Len(w) - 1) ELSE <<x>> \o w

\* deque(maxlen=max_requests).append(x): a full deque drops its first item
DequeAppend(w, x, maxlen) ==
    IF Len(w) >= maxlen THEN Tail(Append(w, x)) ELSE Append(w, x)

\* variant: the capacity check admits one request too many
UnderLimitInclusive(w, mr) == Len(w) <= mr

\* if len(self.request_timestamps) < self.max_requests
UnderLimit(w, mr) == Len(w) < mr

\* asyncio.Queue.full(): maxsize <= 0 means the queue is never full
QueueFull(q, maxsize) ==
    IF maxsize <= 0 THEN FALSE ELSE Len(q) >= maxsize

\* variant: the sleep is not capped at one second
SleepTimeUncapped(oldest_timestamp, current_time, tw) ==
    LET wait_time == oldest_timestamp + tw - current_time
    IN  IF wait_time > 0 THEN wait_time ELSE TenthSecond

\* the sleep of _wait_for_token after a failed attempt
SleepTime(oldest_timestamp, current_time, tw) ==
    LET wait_time == oldest_timestamp + tw - current_time
    IN  IF wait_time > 0 THEN Min(wait_time, OneSecond) ELSE TenthSecond

\* variant: a free slot is reported without a timestamp being appended
WaitForTokenNoAppend(w, current_time, mr, tw) ==
    LET pruned == Prune(w, current_time, tw)
    IN  IF UnderLimit(pruned, mr)
        THEN [ok |-> TRUE, ts |-> pruned, sleep |-> 0]
        ELSE [ok |-> FALSE, ts |-> pruned,
              sleep |-> SleepTime(pruned[1], current_time, tw)]

\* variant: the append is left to the deque's maxlen, without a capacity check
WaitForTokenUnchecked(w, current_time, mr, tw) ==
    LET pruned == Prune(w, current_time, tw)
    IN  [ok |-> TRUE, ts |-> DequeAppend(pruned, current_time, mr), sleep |-> 0]

\* one pass of the loop of _wait_for_token, up to the sleep
WaitForToken(w, current_time, mr, tw) ==
    LET pruned == Prune(w, current_time, tw)
    IN  IF UnderLimit(pruned, mr)
        THEN [ok |-> TRUE, ts |-> DequeAppend(pruned, current_time, mr), sleep |-> 0]
        ELSE [ok |-> FALSE, ts |-> pruned,
              sleep |-> SleepTime(pruned[1], current_time, tw)]

\* variant: the queue hands out its newest item
QueueGetLast(q) == q[Len(q)]

\* Queue.get_nowait: the item _process_queue takes from the queue (the queue
\* loses exactly that item)
QueueGet(q) == Head(q)

\* variant: after a failed attempt the loop goes back to Queue.get and lets
\* go of the waiter it had taken
RECURSIVE ProcessQueueEager(_, _, _, _)
ProcessQueueEager(s, current_time, mr, tw) ==
    IF s.held = NoCaller
    THEN IF s.q = <<>>
         THEN [s EXCEPT !.pc = "get_blocked"]
         ELSE LET f == QueueGet(s.q)
                  rest == SelectSeq(s.q, LAMBDA x : x # f)
              IN  ProcessQueueEager(
                      [s EXCEPT !.held = f, !.q = rest,
                                !.put = IF s.put = <<>> THEN <<>> ELSE Tail(s.put),
                                !.woken = IF s.put = <<>> THEN s.woken
                                          ELSE s.woken \cup {Head(s.put)}],
                      current_time, mr, tw)
    ELSE LET r == WaitForToken(s.ts, current_time, mr, tw)
         IN  IF r.ok
             THEN IF s.held \in s.settled \cup s.done
                  THEN [s EXCEPT !.ts = r.ts, !.pc = "failed",
                                 !.adm = Append(s.adm, current_time)]
                  ELSE ProcessQueueEager(
                           [s EXCEPT !.ts = r.ts, !.held = NoCaller,
                                     !.done = s.done \cup {s.held},
                                     !.adm = Append(s.adm, current_time)],
                           current_time, mr, tw)
             ELSE [s EXCEPT !.ts = r.ts, !.pc = "sleeping", !.held = NoCaller,
                            !.wake = current_time + r.sleep]

\* _process_queue from a point where it is scheduled until it suspends again.
\* s: ts (window), q (queue), put (putters), woken (putters woken by
\* get_nowait), done (futures resolved), held, adm (history), pc, wake,
\* settled (futures that were done or cancelled when the run began).
\* future.set_result on a future that is not pending raises
\* InvalidStateError, which nothing in _process_queue catches: the task ends
\* ("failed") after _wait_for_token has already taken the slot.
RECURSIVE ProcessQueue(_, _, _, _)
ProcessQueue(s, current_time, mr, tw) ==
    IF s.held = NoCaller
    THEN IF s.q = <<>>
         THEN [s EXCEPT !.pc = "get_blocked"]
         ELSE LET f == QueueGet(s.q)
                  rest == SelectSeq(s.q, LAMBDA x : x # f)
              IN  ProcessQueue(
                      [s EXCEPT !.held = f, !.q = rest,
                                !.put = IF s.put = <<>> THEN <<>> ELSE Tail(s.put),
                                !.woken = IF s.put = <<>> THEN s.woken
                                          ELSE s.woken \cup {Head(s.put)}],
                      current_time, mr, tw)
    ELSE LET r == WaitForToken(s.ts, current_time, mr, tw)
         IN  IF r.ok
             THEN IF s.held \in s.settled \cup s.done
                  THEN [s EXCEPT !.ts = r.ts, !.pc = "failed",
                                 !.adm = Append(s.adm, current_time)]
                  ELSE ProcessQueue(
                           [s EXCEPT !.ts = r.ts, !.held = NoCaller,
                                     !.done = s.done \cup {s.held},
                                     !.adm = Append(s.adm, current_time)],
                           current_time, mr, tw)
             ELSE [s EXCEPT !.ts = r.ts, !.pc = "sleeping",
                            !.wake = current_time + r.sleep]

\* ------------------------------------------------------------------ Init
Configs ==
    [max_requests : {1, 2}, time_window : {OneSecond}, max_queue_size : {0, 1}]

\* variant: the deque of timestamps is made anew for every instance at once
NewLimiterSharedWindow(i, cfg) ==
    /\ max_requests' = [max_requests EXCEPT ![i] = cfg.max_requests]
    /\ time_window' = [time_window EXCEPT ![i] = cfg.time_window]
    /\ max_queue_size' = [max_queue_size EXCEPT ![i] = cfg.max_queue_size]
    /\ request_timestamps' = [j \in Instances |-> <<>>]
    /\ request_queue' = [request_queue EXCEPT ![i] = <<>>]
    /\ putters' = [putters EXCEPT ![i] = <<>>]
    /\ rel_pc' = [rel_pc EXCEPT ![i] = "ready"]
    /\ held' = [held EXCEPT ![i] = NoCaller]
    /\ wake_at' = [wake_at EXCEPT ![i] = 0]

\* RateLimiter.__init__
NewLimiter(i, cfg) ==
    /\ max_requests' = [max_requests EXCEPT ![i] = cfg.max_requests]
    /\ time_window' = [time_window EXCEPT ![i] = cfg.time_window]
    /\ max_queue_size' = [max_queue_size EXCEPT ![i] = cfg.max_queue_size]
    /\ request_timestamps' = [request_timestamps EXCEPT ![i] = <<>>]
    /\ request_queue' = [request_queue EXCEPT ![i] = <<>>]
    /\ putters' = [putters EXCEPT ![i] = <<>>]
    /\ rel_pc' = [rel_pc EXCEPT ![i] = "ready"]
    /\ held' = [held EXCEPT ![i] = NoCaller]
    /\ wake_at' = [wake_at EXCEPT ![i] = 0]

InitCommon ==
    /\ now = 0
    /\ limiters = <<>>
    /\ request_timestamps = [i \in Instances |-> <<>>]
    /\ request_queue = [i \in Instances |-> <<>>]
    /\ putters = [i \in Instances |-> <<>>]
    /\ held = [i \in Instances |-> NoCaller]
    /\ wake_at = [i \in Instances |-> 0]
    /\ admitted = [i \in Instances |-> <<>>]
    /\ enqueued = [i \in Instances |-> <<>>]
    /\ built = [k \in Keys |-> 0]
    /\ lock = {}

\* app/api/prompt_analysis.py: rate_limiter = RateLimiter(...) at import,
\* and every request depends on rate_limiter.limit
InitGlobal(cfg, callers) ==
    /\ InitCommon
    /\ reg = cfg
    /\ instances = 1
    /\ max_requests = [i \in Instances |-> IF i = 1 THEN cfg.max_requests ELSE 0]
    /\ time_window = [i \in Instances |-> IF i = 1 THEN cfg.time_window ELSE 0]
    /\ max_queue_size = [i \in Instances |-> IF i = 1 THEN cfg.max_queue_size ELSE 0]
    /\ rel_pc = [i \in Instances |-> IF i = 1 THEN "ready" ELSE "none"]
    /\ pc = [c \in callers |-> "bound"]
    /\ user = [c \in callers |-> NoUser]
    /\ lim = [c \in callers |-> 1]
    /\ future_done = [c \in callers |-> FALSE]
    /\ local_time = [t \in callers \cup {ReleaserThread} |-> 0]

Init == \E cfg \in Configs : InitGlobal(cfg, Callers)

\* --------------------------------------------------------------- actions
\* variant: the fast path is closed while a waiter is queued or in hand
LimitBehindWaiters(c) ==
    /\ pc[c] = "bound"
    /\ LET i == lim[c]
           current_time == now
           pruned == Prune(request_timestamps[i], current_time, time_window[i])
       IN  IF /\ UnderLimit(pruned, max_requests[i])
              /\ request_queue[i] = <<>> /\ held[i] = NoCaller /\ putters[i] = <<>>
           THEN \* fast path
                /\ request_timestamps' = [request_timestamps EXCEPT
                       ![i] = DequeAppend(pruned, current_time, max_requests[i])]
                /\ admitted' = [admitted EXCEPT ![i] = Append(@, current_time)]
                /\ pc' = [pc EXCEPT ![c] = "allowed"]
                /\ UNCHANGED <<request_queue, putters, rel_pc, enqueued>>
           ELSE /\ request_timestamps' = [request_timestamps EXCEPT ![i] = pruned]
                /\ admitted' = admitted
                /\ IF QueueFull(request_queue[i], max_queue_size[i])
                   THEN \* Queue.put suspends the caller until the queue has room
                        /\ putters' = [putters EXCEPT ![i] = Append(@, c)]
                        /\ pc' = [pc EXCEPT ![c] = "put_blocked"]
                        /\ UNCHANGED <<request_queue, rel_pc, enqueued>>
                   ELSE \* put_nowait, then `await future`
                        /\ request_queue' = [request_queue EXCEPT ![i] = Append(@, c)]
                        /\ enqueued' = [enqueued EXCEPT ![i] = Append(@, c)]
                        /\ rel_pc' = [rel_pc EXCEPT
                               ![i] = IF @ = "get_blocked" THEN "ready" ELSE @]
                        /\ pc' = [pc EXCEPT ![c] = "waiting"]
                        /\ UNCHANGED putters
    /\ UNCHANGED <<lock, local_time, now, reg, limiters, instances, max_requests, time_window,
                   max_queue_size, held, wake_at, user, lim, future_done, built>>

\* variant: the capacity check is made on the window as it stands
LimitUnpruned(c) ==
    /\ pc[c] = "bound"
    /\ LET i == lim[c]
           current_time == now
           pruned == request_timestamps[i]
       IN  IF UnderLimit(pruned, max_requests[i])
           THEN \* fast path
                /\ request_timestamps' = [request_timestamps EXCEPT
                       ![i] = DequeAppend(pruned, current_time, max_requests[i])]
                /\ admitted' = [admitted EXCEPT ![i] = Append(@, current_time)]
                /\ pc' = [pc EXCEPT ![c] = "allowed"]
                /\ UNCHANGED <<request_queue, putters, rel_pc, enqueued>>
           ELSE /\ request_timestamps' = [request_timestamps EXCEPT ![i] = pruned]
                /\ admitted' = admitted
                /\ IF QueueFull(request_queue[i], max_queue_size[i])
                   THEN \* Queue.put suspends the caller until the queue has room
                        /\ putters' = [putters EXCEPT ![i] = Append(@, c)]
                        /\ pc' = [pc EXCEPT ![c] = "put_blocked"]
                        /\ UNCHANGED <<request_queue, rel_pc, enqueued>>
                   ELSE \* put_nowait, then `await future`
                        /\ request_queue' = [request_queue EXCEPT ![i] = Append(@, c)]
                        /\ enqueued' = [enqueued EXCEPT ![i] = Append(@, c)]
                        /\ rel_pc' = [rel_pc EXCEPT
                               ![i] = IF @ = "get_blocked" THEN "ready" ELSE @]
                        /\ pc' = [pc EXCEPT ![c] = "waiting"]
                        /\ UNCHANGED putters
    /\ UNCHANGED <<lock, local_time, now, reg, limiters, instances, max_requests, time_window,
                   max_queue_size, held, wake_at, user, lim, future_done, built>>

\* RateLimiter.limit, from the call to its first suspension or its return
Limit(c) ==
    /\ pc[c] = "bound"
    /\ LET i == lim[c]
           current_time == now
           pruned == Prune(request_timestamps[i], current_time, time_window[i])
       IN  IF UnderLimit(pruned, max_requests[i])
           THEN \* fast path
                /\ request_timestamps' = [request_timestamps EXCEPT
                       ![i] = DequeAppend(pruned, current_time, max_requests[i])]
                /\ admitted' = [admitted EXCEPT ![i] = Append(@, current_time)]
                /\ pc' = [pc EXCEPT ![c] = "allowed"]
                /\ UNCHANGED <<request_queue, putters, rel_pc, enqueued>>
           ELSE /\ request_timestamps' = [request_timestamps EXCEPT ![i] = pruned]
                /\ admitted' = admitted
                /\ IF QueueFull(request_queue[i], max_queue_size[i])
                   THEN \* Queue.put suspends the caller until the queue has room
                        /\ putters' = [putters EXCEPT ![i] = Append(@, c)]
                        /\ pc' = [pc EXCEPT ![c] = "put_blocked"]
                        /\ UNCHANGED <<request_queue, rel_pc, enqueued>>
                   ELSE \* put_nowait, then `await future`
                        /\ request_queue' = [request_queue EXCEPT ![i] = Append(@, c)]
                        /\ enqueued' = [enqueued EXCEPT ![i] = Append(@, c)]
                        /\ rel_pc' = [rel_pc EXCEPT
                               ![i] = IF @ = "get_blocked" THEN "ready" ELSE @]
                        /\ pc' = [pc EXCEPT ![c] = "waiting"]
                        /\ UNCHANGED putters
    /\ UNCHANGED <<lock, local_time, now, reg, limiters, instances, max_requests, time_window,
                   max_queue_size, held, wake_at, user, lim, future_done, built>>

\* Queue.put resumed after get_nowait woke its putter: `while self.full()` again
PutRetry(c) ==
    /\ pc[c] = "put_woken"
    /\ LET i == lim[c]
       IN  IF QueueFull(request_queue[i], max_queue_size[i])
           THEN /\ putters' = [putters EXCEPT ![i] = Append(@, c)]
                /\ pc' = [pc EXCEPT ![c] = "put_blocked"]
                /\ UNCHANGED <<request_queue, rel_pc, enqueued>>
           ELSE /\ request_queue' = [request_queue EXCEPT ![i] = Append(@, c)]
                /\ enqueued' = [enqueued EXCEPT ![i] = Append(@, c)]
                /\ rel_pc' = [rel_pc EXCEPT
                       ![i] = IF @ = "get_blocked" THEN "ready" ELSE @]
                /\ pc' = [pc EXCEPT ![c] = "waiting"]
                /\ UNCHANGED putters
    /\ UNCHANGED <<lock, local_time, now, reg, limiters, instances, max_requests, time_window,
                   max_queue_size, request_timestamps, held, wake_at, user, lim,
                   future_done, admitted, built>>

\* variant: a woken caller goes back to the capacity check
ResumeRetries(c) ==
    /\ pc[c] = "waiting"
    /\ future_done[c]
    /\ pc' = [pc EXCEPT ![c] = "bound"]
    /\ future_done' = [future_done EXCEPT ![c] = FALSE]
    /\ UNCHANGED <<lock, local_time, now, reg, limiters, instances, max_requests, time_window,
                   max_queue_size, request_timestamps, request_queue, putters,
                   rel_pc, held, wake_at, user, lim, admitted, enqueued,
                   built>>

\* `await future` returns: limit() returns and the request is admitted
Resume(c) ==
    /\ pc[c] = "waiting"
    /\ future_done[c]
    /\ pc' = [pc EXCEPT ![c] = "allowed"]
    /\ UNCHANGED <<lock, local_time, now, reg, limiters, instances, max_requests, time_window,
                   max_queue_size, request_timestamps, request_queue, putters,
                   rel_pc, held, wake_at, user, lim, future_done, admitted, enqueued,
                   built>>

\* the request is over; the same dependency serves the caller's next request
Finish(c) ==
    /\ pc[c] = "allowed"
    /\ pc' = [pc EXCEPT ![c] = IF user[c] = NoUser THEN "bound" ELSE "idle"]
    /\ future_done' = [future_done EXCEPT ![c] = FALSE]
    /\ enqueued' = [i \in Instances |-> SelectSeq(enqueued[i], LAMBDA x : x # c)]
    /\ UNCHANGED <<lock, local_time, now, reg, limiters, instances, max_requests, time_window,
                   max_queue_size, request_timestamps, request_queue, putters,
                   rel_pc, held, wake_at, user, lim, admitted, built>>

\* the future of caller c was cancelled: the task suspended in `await future`
\* was cancelled before the future had a result
FutureCancelled(c) == pc[c] = "cancelled" /\ ~future_done[c]

\* the effect of one run of _process_queue on instance i
RunReleaser(i) ==
    LET s0 == [ts |-> request_timestamps[i], q |-> request_queue[i],
               put |-> putters[i], woken |-> {}, done |-> {},
               held |-> held[i], adm |-> admitted[i],
               pc |-> rel_pc[i], wake |-> 0,
               settled |-> {c \in DOMAIN pc : future_done[c] \/ FutureCancelled(c)}]
        s == ProcessQueue(s0, now, max_requests[i], time_window[i])
    IN  /\ request_timestamps' = [request_timestamps EXCEPT ![i] = s.ts]
        /\ request_queue' = [request_queue EXCEPT ![i] = s.q]
        /\ putters' = [putters EXCEPT ![i] = s.put]
        /\ held' = [held EXCEPT ![i] = s.held]
        /\ admitted' = [admitted EXCEPT ![i] = s.adm]
        /\ rel_pc' = [rel_pc EXCEPT ![i] = s.pc]
        /\ wake_at' = [wake_at EXCEPT ![i] = s.wake]
        /\ future_done' = [c \in DOMAIN pc |-> future_done[c] \/ c \in s.done]
        /\ pc' = [c \in DOMAIN pc |-> IF c \in s.woken THEN "put_woken" ELSE pc[c]]
        /\ UNCHANGED <<lock, local_time, now, reg, limiters, instances, max_requests, time_window,
                       max_queue_size, user, lim, enqueued, built>>

\* _process_queue starts, or resumes from Queue.get
ReleaserGet(i) ==
    /\ rel_pc[i] = "ready"
    /\ RunReleaser(i)

\* _process_queue resumes from asyncio.sleep inside _wait_for_token
ReleaserRetry(i) ==
    /\ rel_pc[i] = "sleeping"
    /\ now >= wake_at[i]
    /\ RunReleaser(i)

\* the clock advances by one tick; beyond the horizon the time origin moves
\* instead (every stored time goes down by one tick).  Stored times that are
\* past all comparisons are normalised: an expired timestamp stays at
\* now - time_window - 1, an overdue sleep deadline stays at now.
TickTo(horizon) ==
    LET t == IF now < horizon THEN now + 1 ELSE now
        shift == IF now < horizon THEN 0 ELSE 1
        Old(x, i) == Max(x - shift, t - time_window[i] - 1)
    IN  /\ now' = t
        /\ request_timestamps' = [i \in Instances |->
               [n \in 1..Len(request_timestamps[i]) |-> Old(request_timestamps[i][n], i)]]
        /\ admitted' = [i \in Instances |->
               LET a == [n \in 1..Len(admitted[i]) |-> admitted[i][n] - shift]
               IN  SelectSeq(a, LAMBDA x : x >= t - time_window[i])]
        /\ wake_at' = [i \in Instances |->
               IF rel_pc[i] = "sleeping" THEN Max(wake_at[i] - shift, t)
               ELSE wake_at[i]]
        /\ UNCHANGED <<lock, local_time, reg, limiters, instances, max_requests, time_window,
                       max_queue_size, request_queue, putters, rel_pc, held,
                       pc, user, lim, future_done, enqueued, built>>

Tick == TickTo(MaxTime)

\* ------------------------------------------------------- UserRateLimiter
\* variant: the lookup always misses
HasLimiterNever(d, user_id) == FALSE

\* if user_id not in self.limiters
HasLimiter(d, user_id) == user_id \in DOMAIN d

\* UserRateLimiter.limit_for_user: get_limiter(user_id), then the closure
\* over the limiter it returned
LimitForUser(c, user_id) ==
    /\ pc[c] = "idle"
    /\ IF HasLimiter(limiters, user_id)
       THEN /\ lim' = [lim EXCEPT ![c] = limiters[user_id]]
            /\ UNCHANGED <<limiters, instances, max_requests, time_window,
                           max_queue_size, request_timestamps, request_queue,
                           putters, rel_pc, held, wake_at, built>>
       ELSE /\ instances < MaxInstances
            /\ NewLimiter(instances + 1, reg)
            /\ instances' = instances + 1
            /\ limiters' = (user_id :> (instances + 1)) @@ limiters
            /\ built' = [built EXCEPT ![user_id] = @ + 1]
            /\ lim' = [lim EXCEPT ![c] = instances + 1]
    /\ user' = [user EXCEPT ![c] = user_id]
    /\ pc' = [pc EXCEPT ![c] = "bound"]
    /\ UNCHANGED <<lock, local_time, now, reg, future_done, admitted, enqueued>>

Next ==
    \/ \E c \in DOMAIN pc : Limit(c)
    \/ \E c \in DOMAIN pc : PutRetry(c)
    \/ \E c \in DOMAIN pc : Resume(c)
    \/ \E c \in DOMAIN pc : Finish(c)
    \/ \E i \in Instances : ReleaserGet(i)
    \/ \E i \in Instances : ReleaserRetry(i)
    \/ Tick

Spec == Init /\ [][Next]_vars

\* The global limiter under fair scheduling: the event loop runs every task
\* that is ready (the _process_queue task after Queue.get or after its
\* sleep, a caller whose future or putter was resolved), and the clock keeps
\* advancing.
LiveConfigs ==
    [max_requests : {1}, time_window : {OneSecond}, max_queue_size : {0, 1}]

InitLive == \E cfg \in LiveConfigs : InitGlobal(cfg, LiveCallers)

Fairness ==
    /\ WF_vars(Tick)
    /\ WF_vars(ReleaserGet(1))
    /\ WF_vars(ReleaserRetry(1))
    /\ \A c \in LiveCallers : WF_vars(Resume(c)) /\ WF_vars(PutRetry(c))

SpecLive == InitLive /\ [][Next]_vars /\ Fairness

\* ------------------------------------------------- the /analyze endpoint
\* variant: the endpoint body does not wait for a suspended dependency
HandlerMayRunEarly(c) == pc[c] \in {"allowed", "waiting"}

\* _: None = Depends(rate_limiter.limit): the body of analyze_prompt is called
\* with the value limit() returned, so only once limit() has returned; an
\* HTTPException raised by limit() becomes the response instead
HandlerMayRun(c) == pc[c] = "allowed"

\* the body of analyze_prompt runs and the response is sent
Handler(c) ==
    /\ HandlerMayRun(c)
    /\ pc' = [pc EXCEPT ![c] = "served"]
    /\ UNCHANGED <<lock, local_time, now, reg, limiters, instances, max_requests, time_window,
                   max_queue_size, request_timestamps, request_queue, putters,
                   rel_pc, held, wake_at, user, lim, future_done, admitted,
                   enqueued, built>>

\* the caller's next POST /analyze
NextRequest(c) ==
    /\ pc[c] \in {"served", "rejected"}
    /\ pc' = [pc EXCEPT ![c] = "bound"]
    /\ future_done' = [future_done EXCEPT ![c] = FALSE]
    /\ enqueued' = [i \in Instances |-> SelectSeq(enqueued[i], LAMBDA x : x # c)]
    /\ UNCHANGED <<lock, local_time, now, reg, limiters, instances, max_requests, time_window,
                   max_queue_size, request_timestamps, request_queue, putters,
                   rel_pc, held, wake_at, user, lim, admitted, built>>

NextApi ==
    \/ \E c \in DOMAIN pc : Limit(c)
    \/ \E c \in DOMAIN pc : PutRetry(c)
    \/ \E c \in DOMAIN pc : Resume(c)
    \/ \E c \in DOMAIN pc : Handler(c)
    \/ \E c \in DOMAIN pc : NextRequest(c)
    \/ \E i \in Instances : ReleaserGet(i)
    \/ \E i \in Instances : ReleaserRetry(i)
    \/ Tick

SpecApi == InitLive /\ [][NextApi]_vars

\* --------------------------------------------------- cancelled callers
\* The task of caller c is cancelled while limit() is suspended.  In
\* `await future` the pending future is cancelled with it and stays where it
\* is (in the queue or with _process_queue); in Queue.put the putter leaves
\* self._putters, and a putter that had already been woken passes its
\* wake-up on when the queue has room.  limit() catches only QueueFull, so
\* CancelledError ends the request.
Cancel(c) ==
    /\ pc[c] \in {"waiting", "put_blocked", "put_woken"}
    /\ LET i == lim[c]
           passOn == /\ pc[c] = "put_woken"
                     /\ ~QueueFull(request_queue[i], max_queue_size[i])
                     /\ putters[i] # <<>>
       IN  /\ putters' = [putters EXCEPT
                  ![i] = IF passOn THEN Tail(@)
                         ELSE SelectSeq(@, LAMBDA x : x # c)]
           /\ pc' = [d \in DOMAIN pc |->
                  IF d = c THEN "cancelled"
                  ELSE IF passOn /\ d = Head(putters[i]) THEN "put_woken"
                  ELSE pc[d]]
    /\ UNCHANGED <<lock, local_time, now, reg, limiters, instances, max_requests, time_window,
                   max_queue_size, request_timestamps, request_queue, rel_pc,
                   held, wake_at, user, lim, future_done, admitted, enqueued,
                   built>>

\* callers that arrive only while no earlier caller is suspended in limit()
LimitInTurn(c) ==
    /\ \A d \in DOMAIN pc : pc[d] \notin {"waiting", "put_blocked", "put_woken"}
    /\ Limit(c)

NextCancel ==
    \/ \E c \in DOMAIN pc : LimitInTurn(c)
    \/ \E c \in DOMAIN pc : PutRetry(c)
    \/ \E c \in DOMAIN pc : Resume(c)
    \/ \E c \in DOMAIN pc : Finish(c)
    \/ \E c \in DOMAIN pc : Cancel(c)
    \/ \E i \in Instances : ReleaserGet(i)
    \/ \E i \in Instances : ReleaserRetry(i)
    \/ Tick

\* fair scheduling as in SpecLive; being cancelled is never forced
SpecCancel == InitLive /\ [][NextCancel]_vars /\ Fairness

\* nothing observes the end of queue_task: __init__ keeps the task without a
\* done-callback, nothing awaits it, and _process_queue has no try/except
Reported(i) == FALSE

\* ---------------------------------------------------- parallel threads
\* limit() and _wait_for_token statement by statement, for callers and the
\* _process_queue loop running as threads that interleave anywhere: the clock
\* is read before `with self.lock`, the lock covers prune, check and append,
\* and the releaser reads request_timestamps[0] after it has left the lock.
\* Queue and future operations are taken as indivisible.
NumThreadCallers == 2
ThreadCallers == 1..NumThreadCallers
ThreadHorizon == 3

ThreadConfigs ==
    [max_requests : {1, 2}, time_window : {2 * TenthSecond}, max_queue_size : {0, 1}]

InitThreads == \E cfg \in ThreadConfigs : InitGlobal(cfg, ThreadCallers)

\* what the thread-level steps never touch
fixedVars == <<reg, limiters, instances, max_requests, time_window,
               max_queue_size, user, lim, built>>

\* variant: the lock is not taken
LockIgnored(l) == TRUE

\* threading.Lock: `with self.lock` is entered only while nobody holds it
LockFree(l) == l = {}

\* limit(): current_time = time.time()
ThreadReadClock(c) ==
    /\ pc[c] = "bound"
    /\ local_time' = [local_time EXCEPT ![c] = now]
    /\ pc' = [pc EXCEPT ![c] = "clock_read"]
    /\ UNCHANGED <<now, request_timestamps, request_queue, putters, rel_pc, held,
                   wake_at, future_done, lock, admitted, enqueued, fixedVars>>

\* limit(): with self.lock
ThreadAcquire(c) ==
    /\ pc[c] = "clock_read"
    /\ LockFree(lock)
    /\ lock' = lock \cup {c}
    /\ pc' = [pc EXCEPT ![c] = "locked"]
    /\ UNCHANGED <<now, request_timestamps, request_queue, putters, rel_pc, held,
                   wake_at, future_done, local_time, admitted, enqueued,
                   fixedVars>>

\* limit(): the popleft loop
ThreadPrune(c) ==
    /\ pc[c] = "locked"
    /\ request_timestamps' = [request_timestamps EXCEPT
           ![lim[c]] = Prune(@, local_time[c], time_window[lim[c]])]
    /\ pc' = [pc EXCEPT ![c] = "pruned"]
    /\ UNCHANGED <<now, request_queue, putters, rel_pc, held, wake_at,
                   future_done, lock, local_time, admitted, enqueued, fixedVars>>

\* variant: the failed test leaves the lock held
ThreadCheckKeepsLock(c) ==
    /\ pc[c] = "pruned"
    /\ IF UnderLimit(request_timestamps[lim[c]], max_requests[lim[c]])
       THEN /\ pc' = [pc EXCEPT ![c] = "appending"]
            /\ UNCHANGED <<lock, local_time>>
       ELSE /\ pc' = [pc EXCEPT ![c] = "unlocked"]
            /\ lock' = lock
            /\ local_time' = [local_time EXCEPT ![c] = 0]
    /\ UNCHANGED <<now, request_timestamps, request_queue, putters, rel_pc, held,
                   wake_at, future_done, admitted, enqueued, fixedVars>>

\* limit(): if len(self.request_timestamps) < self.max_requests; when the
\* test fails the with block ends and the lock is released
ThreadCheck(c) ==
    /\ pc[c] = "pruned"
    /\ IF UnderLimit(request_timestamps[lim[c]], max_requests[lim[c]])
       THEN /\ pc' = [pc EXCEPT ![c] = "appending"]
            /\ UNCHANGED <<lock, local_time>>
       ELSE /\ pc' = [pc EXCEPT ![c] = "unlocked"]
            /\ lock' = lock \ {c}
            /\ local_time' = [local_time EXCEPT ![c] = 0]
    /\ UNCHANGED <<now, request_timestamps, request_queue, putters, rel_pc, held,
                   wake_at, future_done, admitted, enqueued, fixedVars>>

\* limit(): self.request_timestamps.append(current_time); return
ThreadAppend(c) ==
    /\ pc[c] = "appending"
    /\ request_timestamps' = [request_timestamps EXCEPT
           ![lim[c]] = DequeAppend(@, local_time[c], max_requests[lim[c]])]
    /\ admitted' = [admitted EXCEPT ![lim[c]] = Append(@, local_time[c])]
    /\ lock' = lock \ {c}
    /\ local_time' = [local_time EXCEPT ![c] = 0]
    /\ pc' = [pc EXCEPT ![c] = "allowed"]
    /\ UNCHANGED <<now, request_queue, putters, rel_pc, held, wake_at,
                   future_done, enqueued, fixedVars>>

\* limit(): future = asyncio.Future(); await self.request_queue.put(future)
ThreadPut(c) ==
    /\ pc[c] = "unlocked"
    /\ LET i == lim[c]
       IN  IF QueueFull(request_queue[i], max_queue_size[i])
           THEN /\ putters' = [putters EXCEPT ![i] = Append(@, c)]
                /\ pc' = [pc EXCEPT ![c] = "put_blocked"]
                /\ UNCHANGED <<request_queue, rel_pc, enqueued>>
           ELSE /\ request_queue' = [request_queue EXCEPT ![i] = Append(@, c)]
                /\ enqueued' = [enqueued EXCEPT ![i] = Append(@, c)]
                /\ rel_pc' = [rel_pc EXCEPT
                       ![i] = IF @ = "get_blocked" THEN "ready" ELSE @]
                /\ pc' = [pc EXCEPT ![c] = "waiting"]
                /\ UNCHANGED putters
    /\ UNCHANGED <<now, request_timestamps, held, wake_at, future_done, lock,
                   local_time, admitted, fixedVars>>

\* _process_queue: future = await self.request_queue.get()
ThreadGet ==
    /\ rel_pc[1] = "ready"
    /\ IF request_queue[1] = <<>>
       THEN /\ rel_pc' = [rel_pc EXCEPT ![1] = "get_blocked"]
            /\ UNCHANGED <<request_queue, putters, held, pc>>
       ELSE LET f == QueueGet(request_queue[1])
            IN  /\ held' = [held EXCEPT ![1] = f]
                /\ request_queue' = [request_queue EXCEPT
                       ![1] = SelectSeq(@, LAMBDA x : x # f)]
                /\ putters' = [putters EXCEPT
                       ![1] = IF @ = <<>> THEN <<>> ELSE Tail(@)]
                /\ pc' = [c \in DOMAIN pc |->
                       IF putters[1] # <<>> /\ c = Head(putters[1])
                       THEN "put_woken" ELSE pc[c]]
                /\ rel_pc' = [rel_pc EXCEPT ![1] = "wait_for_token"]
    /\ UNCHANGED <<now, request_timestamps, wake_at, future_done, lock,
                   local_time, admitted, enqueued, fixedVars>>

\* _wait_for_token: current_time = time.time()
ThreadReleaserReadClock ==
    /\ rel_pc[1] = "wait_for_token"
    /\ local_time' = [local_time EXCEPT ![ReleaserThread] = now]
    /\ rel_pc' = [rel_pc EXCEPT ![1] = "clock_read"]
    /\ UNCHANGED <<now, request_timestamps, request_queue, putters, held,
                   wake_at, pc, future_done, lock, admitted, enqueued, fixedVars>>

\* _wait_for_token: with self.lock
ThreadReleaserAcquire ==
    /\ rel_pc[1] = "clock_read"
    /\ LockFree(lock)
    /\ lock' = lock \cup {ReleaserThread}
    /\ rel_pc' = [rel_pc EXCEPT ![1] = "locked"]
    /\ UNCHANGED <<now, request_timestamps, request_queue, putters, held,
                   wake_at, pc, future_done, local_time, admitted, enqueued,
                   fixedVars>>

\* _wait_for_token: the popleft loop
ThreadReleaserPrune ==
    /\ rel_pc[1] = "locked"
    /\ request_timestamps' = [request_timestamps EXCEPT
           ![1] = Prune(@, local_time[ReleaserThread], time_window[1])]
    /\ rel_pc' = [rel_pc EXCEPT ![1] = "pruned"]
    /\ UNCHANGED <<now, request_queue, putters, held, wake_at, pc, future_done,
                   lock, local_time, admitted, enqueued, fixedVars>>

\* _wait_for_token: if len(self.request_timestamps) < self.max_requests
ThreadReleaserCheck ==
    /\ rel_pc[1] = "pruned"
    /\ IF UnderLimit(request_timestamps[1], max_requests[1])
       THEN /\ rel_pc' = [rel_pc EXCEPT ![1] = "appending"]
            /\ lock' = lock
       ELSE /\ rel_pc' = [rel_pc EXCEPT ![1] = "unlocked"]
            /\ lock' = lock \ {ReleaserThread}
    /\ UNCHANGED <<now, request_timestamps, request_queue, putters, held,
                   wake_at, pc, future_done, local_time, admitted, enqueued,
                   fixedVars>>

\* _wait_for_token: append(current_time); return; then, in _process_queue,
\* future.set_result(None) and task_done()
ThreadReleaserAppend ==
    /\ rel_pc[1] = "appending"
    /\ request_timestamps' = [request_timestamps EXCEPT
           ![1] = DequeAppend(@, local_time[ReleaserThread], max_requests[1])]
    /\ admitted' = [admitted EXCEPT ![1] = Append(@, local_time[ReleaserThread])]
    /\ lock' = lock \ {ReleaserThread}
    /\ local_time' = [local_time EXCEPT ![ReleaserThread] = 0]
    /\ IF future_done[held[1]] \/ FutureCancelled(held[1])
       THEN /\ rel_pc' = [rel_pc EXCEPT ![1] = "failed"]
            /\ UNCHANGED <<held, future_done>>
       ELSE /\ rel_pc' = [rel_pc EXCEPT ![1] = "ready"]
            /\ future_done' = [future_done EXCEPT ![held[1]] = TRUE]
            /\ held' = [held EXCEPT ![1] = NoCaller]
    /\ UNCHANGED <<now, request_queue, putters, wake_at, pc, enqueued, fixedVars>>

\* _wait_for_token: oldest_timestamp = self.request_timestamps[0] (IndexError
\* on an empty deque ends the task), wait_time, and the call of asyncio.sleep
ThreadReleaserReadOldest ==
    /\ rel_pc[1] = "unlocked"
    /\ IF request_timestamps[1] = <<>>
       THEN /\ rel_pc' = [rel_pc EXCEPT ![1] = "failed"]
            /\ UNCHANGED wake_at
       ELSE /\ rel_pc' = [rel_pc EXCEPT ![1] = "sleeping"]
            /\ wake_at' = [wake_at EXCEPT ![1] =
                   now + SleepTime(request_timestamps[1][1],
                                   local_time[ReleaserThread], time_window[1])]
    /\ local_time' = [local_time EXCEPT ![ReleaserThread] = 0]
    /\ UNCHANGED <<now, request_timestamps, request_queue, putters, held, pc,
                   future_done, lock, admitted, enqueued, fixedVars>>

\* asyncio.sleep is over: the loop of _wait_for_token starts again
ThreadReleaserWake ==
    /\ rel_pc[1] = "sleeping"
    /\ now >= wake_at[1]
    /\ rel_pc' = [rel_pc EXCEPT ![1] = "wait_for_token"]
    /\ UNCHANGED <<now, request_timestamps, request_queue, putters, held,
                   wake_at, pc, future_done, lock, local_time, admitted,
                   enqueued, fixedVars>>

ThreadTick ==
    /\ now < ThreadHorizon
    /\ TickTo(ThreadHorizon)

NextThreads ==
    \/ \E c \in DOMAIN pc : ThreadReadClock(c)
    \/ \E c \in DOMAIN pc : ThreadAcquire(c)
    \/ \E c \in DOMAIN pc : ThreadPrune(c)
    \/ \E c \in DOMAIN pc : ThreadCheck(c)
    \/ \E c \in DOMAIN pc : ThreadAppend(c)
    \/ \E c \in DOMAIN pc : ThreadPut(c)
    \/ \E c \in DOMAIN pc : PutRetry(c)
    \/ \E c \in DOMAIN pc : Resume(c)
    \/ \E c \in DOMAIN pc : Finish(c)
    \/ ThreadGet
    \/ ThreadReleaserReadClock
    \/ ThreadReleaserAcquire
    \/ ThreadReleaserPrune
    \/ ThreadReleaserCheck
    \/ ThreadReleaserAppend
    \/ ThreadReleaserReadOldest
    \/ ThreadReleaserWake
    \/ ThreadTick

SpecThreads == InitThreads /\ [][NextThreads]_vars

\* ------------------------------------------------------ the prune loop
\* The popleft loop on its own: any deque of at most max_requests timestamps
\* (in any order) and any clock value, with a caller inside `with self.lock`
\* about to run the loop.
PruneMaxLen == 3
PruneMaxTime == 4

PruneWindows == UNION {[1..n -> 0..PruneMaxTime] : n \in 0..PruneMaxLen}

PruneConfig ==
    [max_requests |-> PruneMaxLen, time_window |-> 2 * TenthSecond,
     max_queue_size |-> 0]

InitPrune ==
    /\ now \in 0..PruneMaxTime
    /\ limiters = <<>>
    /\ request_timestamps \in {[i \in Instances |-> IF i = 1 THEN w ELSE <<>>] :
                                  w \in PruneWindows}
    /\ request_queue = [i \in Instances |-> <<>>]
    /\ putters = [i \in Instances |-> <<>>]
    /\ held = [i \in Instances |-> NoCaller]
    /\ wake_at = [i \in Instances |-> 0]
    /\ admitted = [i \in Instances |-> <<>>]
    /\ enqueued = [i \in Instances |-> <<>>]
    /\ built = [k \in Keys |-> 0]
    /\ reg = PruneConfig
    /\ instances = 1
    /\ max_requests = [i \in Instances |-> IF i = 1 THEN PruneConfig.max_requests ELSE 0]
    /\ time_window = [i \in Instances |-> IF i = 1 THEN PruneConfig.time_window ELSE 0]
    /\ max_queue_size = [i \in Instances |-> 0]
    /\ rel_pc = [i \in Instances |-> IF i = 1 THEN "get_blocked" ELSE "none"]
    /\ pc = [c \in {1} |-> "locked"]
    /\ user = [c \in {1} |-> NoUser]
    /\ lim = [c \in {1} |-> 1]
    /\ future_done = [c \in {1} |-> FALSE]
    /\ lock = {1}
    /\ local_time = [t \in {1, ReleaserThread} |-> IF t = 1 THEN now ELSE 0]

\* the popleft loop run once more, with the same current_time
PruneAgain(c) ==
    /\ pc[c] = "pruned"
    /\ request_timestamps' = [request_timestamps EXCEPT
           ![lim[c]] = Prune(@, local_time[c], time_window[lim[c]])]
    /\ pc' = [pc EXCEPT ![c] = "pruned_again"]
    /\ UNCHANGED <<now, request_queue, putters, rel_pc, held, wake_at,
                   future_done, lock, local_time, admitted, enqueued, fixedVars>>

NextPrune ==
    \/ \E c \in DOMAIN pc : ThreadPrune(c)
    \/ \E c \in DOMAIN pc : PruneAgain(c)

SpecPrune == InitPrune /\ [][NextPrune]_vars

\* ------------------------------------------------ UserRateLimiter alone
\* time_window is not checked to be a whole number of seconds; a short
\* window keeps two limiters on one clock small
RegistryConfigs ==
    [max_requests : {1}, time_window : {3 * TenthSecond}, max_queue_size : {0, 1}]

InitRegistry ==
    /\ InitCommon
    /\ reg \in RegistryConfigs
    /\ instances = 0
    /\ max_requests = [i \in Instances |-> 0]
    /\ time_window = [i \in Instances |-> 0]
    /\ max_queue_size = [i \in Instances |-> 0]
    /\ rel_pc = [i \in Instances |-> "none"]
    /\ pc = [c \in RegistryCallers |-> "idle"]
    /\ user = [c \in RegistryCallers |-> NoUser]
    /\ lim = [c \in RegistryCallers |-> 0]
    /\ future_done = [c \in RegistryCallers |-> FALSE]
    /\ local_time = [t \in RegistryCallers \cup {ReleaserThread} |-> 0]

NextRegistry ==
    \/ \E c \in DOMAIN pc, user_id \in Keys : LimitForUser(c, user_id)
    \/ \E c \in DOMAIN pc : Limit(c)
    \/ \E c \in DOMAIN pc : PutRetry(c)
    \/ \E c \in DOMAIN pc : Resume(c)
    \/ \E c \in DOMAIN pc : Finish(c)
    \/ \E i \in Instances : ReleaserGet(i)
    \/ \E i \in Instances : ReleaserRetry(i)
    \/ Tick

SpecRegistry == InitRegistry /\ [][NextRegistry]_vars

\* ------------------------------------------- the scenarios of the design
\* max_requests=2, time_window=60, max_queue_size=1
Scenario1 == [max_requests |-> 2, time_window |-> 60 * OneSecond, max_queue_size |-> 1]
\* max_requests=1, time_window=1, max_queue_size=0
Scenario3 == [max_requests |-> 1, time_window |-> 1 * OneSecond, max_queue_size |-> 0]
ScenarioCalls == 1..4

InitScenario ==
    \E cfg \in {Scenario1, Scenario3} : InitGlobal(cfg, ScenarioCalls)

\* calls #1, #2, ... are made in this order, all at t=0
ArriveAtZero(c) ==
    /\ now = 0
    /\ \A d \in 1..(c - 1) : pc[d] # "bound"
    /\ Limit(c)

ScenarioTick ==
    /\ now < ScenarioHorizon
    /\ TickTo(ScenarioHorizon)

NextScenario ==
    \/ \E c \in DOMAIN pc : ArriveAtZero(c)
    \/ \E c \in DOMAIN pc : PutRetry(c)
    \/ \E c \in DOMAIN pc : Resume(c)
    \/ \E i \in Instances : ReleaserGet(i)
    \/ \E i \in Instances : ReleaserRetry(i)
    \/ ScenarioTick

SpecScenario == InitScenario /\ [][NextScenario]_vars

\* ================================================================ claims
Waiting(c) == pc[c] = "waiting" /\ ~future_done[c]

\* the call limit() that caller c makes in this step finds, after pruning,
\* a full window
CallsOnFullWindow(c) ==
    /\ pc[c] = "bound"
    /\ pc'[c] # "bound"
    /\ Len(Prune(request_timestamps[lim[c]], now, time_window[lim[c]]))
           >= max_requests[lim[c]]

\* C1: at every moment, the admissions (fast path or by the releaser) whose
\* time lies in the trailing interval [now - time_window, now] number at
\* most max_requests.
C1_WindowBound ==
    \A i \in Instances : Len(admitted[i]) <= max_requests[i]

C1_Witness ==
    \E i \in Instances :
        /\ max_requests[i] = 2
        /\ Len(admitted[i]) = 2
        /\ \E c \in DOMAIN pc : pc[c] = "allowed" /\ future_done[c]
        /\ \E d \in DOMAIN pc : Waiting(d)

\* C2: a limit() call that finds the window full and the queue holding
\* max_queue_size waiters ends in Rejected at once, without being suspended.
C2_RejectedWhenQueueFull ==
    [][\A c \in DOMAIN pc :
          (CallsOnFullWindow(c)
           /\ Len(request_queue[lim[c]]) >= max_queue_size[lim[c]])
          => pc'[c] = "rejected"]_vars

\* C3: the pending queue never holds more than max_queue_size waiters,
\* for max_queue_size = 0 too.
C3_QueueBound ==
    \A i \in Instances : Len(request_queue[i]) <= max_queue_size[i]

\* C4: of two waiters of one limiter, the one enqueued later is never
\* resolved while the one enqueued earlier is still unresolved.
C4_Fifo ==
    \A i \in Instances : \A p, q \in 1..Len(enqueued[i]) :
        (p < q /\ future_done[enqueued[i][q]]) => future_done[enqueued[i][p]]

C4_Witness ==
    \E i \in Instances :
        /\ Len(enqueued[i]) >= 2
        /\ future_done[enqueued[i][1]]
        /\ ~future_done[enqueued[i][2]]

\* the global limiter runs with the configuration of the scenario
IsScenario(cfg) ==
    /\ max_requests[1] = cfg.max_requests
    /\ time_window[1] = cfg.time_window
    /\ max_queue_size[1] = cfg.max_queue_size

\* caller c makes its limit() call in this step
Arrives(c) == pc[c] = "bound" /\ pc'[c] # "bound"

\* the _process_queue task of instance i runs in this step
ReleaserRuns(i) ==
    /\ rel_pc[i] \in {"ready", "sleeping"}
    /\ now' = now
    /\ rel_pc'[i] # rel_pc[i] \/ held'[i] # held[i] \/ wake_at'[i] > wake_at[i]

\* C5: scenario 1 (max_requests=2, time_window=60, max_queue_size=1, calls
\* made in sequence at t=0): calls #1 and #2 are allowed at once, call #3 is
\* queued and the queue then has size 1, call #4 is rejected.
C5_Scenario1 ==
    [][(IsScenario(Scenario1) /\ now = 0) =>
          /\ \A c \in {1, 2} : Arrives(c) => pc'[c] = "allowed"
          /\ Arrives(3) => (pc'[3] = "waiting" /\ Len(request_queue'[1]) = 1)
          /\ Arrives(4) => pc'[4] = "rejected"]_vars

\* C6: scenario 3 (max_requests=1, time_window=1, max_queue_size=0): the
\* first call at t=0 is allowed, the second call at t=0 is rejected at once
\* and never enters the queue.
C6_Scenario3 ==
    [][(IsScenario(Scenario3) /\ now = 0) =>
          /\ Arrives(1) => pc'[1] = "allowed"
          /\ Arrives(2) => (pc'[2] = "rejected" /\ request_queue'[1] = request_queue[1])]_vars

\* C7: every caller whose waiter was enqueued is eventually resolved and
\* returns Allowed, whatever other callers keep arriving.
C7_NoStarvation ==
    \A c \in LiveCallers : (pc[c] = "waiting") ~> (pc[c] = "allowed")

\* C8: scenario 2 (configuration of scenario 1, callers queued at t=0 behind
\* the two admissions of t=0, no later arrival): a queued caller is released
\* by the first run of the releaser at or after t=61 and then returns
\* Allowed; none is released while the entries of t=0 are inside the window
\* (now <= time_window).
C8_Scenario2 ==
    [][IsScenario(Scenario1) =>
          \A c \in DOMAIN pc :
              /\ (Waiting(c) /\ ReleaserRuns(1) /\ now >= 61 * OneSecond)
                     => future_done'[c]
              /\ (Waiting(c) /\ future_done'[c]) => now > time_window[1]
              /\ (pc[c] = "waiting" /\ future_done[c] /\ pc'[c] # pc[c])
                     => pc'[c] = "allowed"]_vars

C8_Witness ==
    /\ IsScenario(Scenario1)
    /\ pc[3] = "allowed"
    /\ future_done[3]
    /\ now >= 61 * OneSecond
    /\ \E n \in 1..Len(admitted[1]) : admitted[1][n] >= 61 * OneSecond

\* C9: a step of a caller of one user, or of that user's releaser, leaves
\* the window and the queue of every other user's limiter unchanged, and a
\* call with fewer than max_requests admissions of its own limiter inside
\* the trailing window is allowed at once.
C9_Independence ==
    [][/\ \A c \in DOMAIN pc : \A b \in DOMAIN limiters :
             (pc'[c] # pc[c] /\ user'[c] # b) =>
                 /\ request_timestamps'[limiters[b]] = request_timestamps[limiters[b]]
                 /\ request_queue'[limiters[b]] = request_queue[limiters[b]]
       /\ \A i \in Instances : \A b \in DOMAIN limiters :
             (ReleaserRuns(i) /\ limiters[b] # i) =>
                 /\ request_timestamps'[limiters[b]] = request_timestamps[limiters[b]]
                 /\ request_queue'[limiters[b]] = request_queue[limiters[b]]
       /\ \A c \in DOMAIN pc :
             (Arrives(c) /\ Len(admitted[lim[c]]) < max_requests[lim[c]])
                 => pc'[c] = "allowed"]_vars

C9_Witness ==
    \E c, d \in DOMAIN pc :
        /\ user[c] = "A" /\ user[d] = "B"
        /\ Waiting(c)
        /\ Len(admitted[lim[c]]) = max_requests[lim[c]]
        /\ pc[d] = "allowed" /\ ~future_done[d]
        /\ lim[c] # lim[d]
        /\ request_timestamps[lim[d]] = <<now>>

\* C10: get_limiter constructs exactly one RateLimiter per user_id ever
\* asked for, every call for that user_id returns that instance, and the
\* instance has the registry's max_requests, time_window and max_queue_size.
C10_GetOrCreate ==
    /\ \A k \in Keys : built[k] = (IF k \in DOMAIN limiters THEN 1 ELSE 0)
    /\ instances = Cardinality(DOMAIN limiters)
    /\ \A c \in DOMAIN pc : pc[c] # "idle" => lim[c] = limiters[user[c]]
    /\ \A k \in DOMAIN limiters :
          /\ max_requests[limiters[k]] = reg.max_requests
          /\ time_window[limiters[k]] = reg.time_window
          /\ max_queue_size[limiters[k]] = reg.max_queue_size

C10_Witness ==
    \E c, d \in DOMAIN pc :
        /\ c # d
        /\ pc[c] # "idle" /\ pc[d] # "idle"
        /\ user[c] = user[d]
        /\ lim[c] = lim[d]
        /\ built[user[c]] = 1

\* the number of timestamps of instance i that are not older than
\* now - time_window
ValidCount(i) ==
    Cardinality({n \in 1..Len(request_timestamps[i]) :
                    request_timestamps[i][n] >= now - time_window[i]})

\* C11: a limit() call that finds fewer than max_requests unexpired entries
\* returns Allowed without suspending, appends exactly its own arrival time
\* behind the unexpired entries, and leaves the queue (and the releaser and
\* every waiter) as they were, whether or not the queue is empty.
C11_FastPath ==
    [][\A c \in DOMAIN pc :
          (Arrives(c) /\ ValidCount(lim[c]) < max_requests[lim[c]]) =>
              LET i == lim[c]
                  w == request_timestamps[i]
                  k == ValidCount(i)
              IN  /\ pc'[c] = "allowed"
                  /\ Len(request_timestamps'[i]) = k + 1
                  /\ request_timestamps'[i][k + 1] = now
                  /\ \A n \in 1..k :
                        request_timestamps'[i][n] = w[Len(w) - k + n]
                  /\ request_queue' = request_queue
                  /\ putters' = putters
                  /\ held' = held
                  /\ rel_pc' = rel_pc
                  /\ future_done' = future_done]_vars

C11_Witness ==
    \E c, d \in DOMAIN pc :
        /\ lim[c] = lim[d]
        /\ pc[c] = "allowed" /\ ~future_done[c]
        /\ Waiting(d)
        /\ request_queue[lim[c]] # <<>>
        /\ Len(request_timestamps[lim[c]]) = 2
        /\ request_timestamps[lim[c]][2] = now
        /\ request_timestamps[lim[c]][1] < now

\* C12: every waiter is resolved at most once, the releaser never tries to
\* resolve a waiter that is already resolved or cancelled (set_result never
\* raises), and the waiter the releaser holds is resolved before the
\* releaser takes the next queue entry.
C12_ResolvedOnce ==
    [][/\ \A c \in DOMAIN pc :
            (~future_done[c] /\ future_done'[c]) =>
                /\ ~FutureCancelled(c)
                /\ c = held[lim[c]] \/ c \in {request_queue[lim[c]][n] :
                                                n \in 1..Len(request_queue[lim[c]])}
       /\ \A i \in Instances :
            /\ rel_pc'[i] = "failed" => rel_pc[i] = "failed"
            /\ (held[i] # NoCaller /\ held'[i] # held[i]) => future_done'[held[i]]]_vars

\* C13: when a caller is cancelled while its waiter is queued, the releaser
\* does not fail on that waiter, and every waiter enqueued after it is
\* eventually resolved.
C13_CancelHarmless ==
    \A c \in LiveCallers :
        Waiting(c) ~> (rel_pc[lim[c]] # "failed" /\ ~Waiting(c))

\* C14: no state has a failed releaser that went unreported while callers
\* are still suspended on their waiters.
C14_FailureReported ==
    \A i \in Instances :
        (rel_pc[i] = "failed" /\ \E c \in DOMAIN pc : lim[c] = i /\ Waiting(c))
            => Reported(i)

\* the state of the request caller c has in progress: Arrived while limit()
\* has not yet suspended or returned, Queued while limit() is suspended
RequestState(c) ==
    CASE pc[c] \in {"idle", "bound"} -> "Arrived"
      [] pc[c] \in {"put_blocked", "put_woken", "waiting"} -> "Queued"
      [] pc[c] \in {"allowed", "served"} -> "Allowed"
      [] pc[c] = "rejected" -> "Rejected"
      [] OTHER -> "Cancelled"

\* C15: a request moves only Arrived -> Allowed, Arrived -> Queued,
\* Arrived -> Rejected or Queued -> Allowed; an Allowed or Rejected request
\* never changes state again (the only step out of these states is the end
\* of the request, after which the caller's next request is Arrived).
C15_RequestStates ==
    [][\A c \in DOMAIN pc :
          \/ RequestState(c)' = RequestState(c)
          \/ <<RequestState(c), RequestState(c)'>> \in
                 {<<"Arrived", "Allowed">>, <<"Arrived", "Queued">>,
                  <<"Arrived", "Rejected">>, <<"Queued", "Allowed">>}
          \/ /\ RequestState(c) \in {"Allowed", "Rejected"}
             /\ RequestState(c)' = "Arrived"
             /\ ~future_done'[c]
             /\ \A i \in Instances :
                   /\ request_timestamps'[i] = request_timestamps[i]
                   /\ request_queue'[i] = request_queue[i]
                   /\ held'[i] # c]_vars

C15_Witness ==
    \E c, d \in DOMAIN pc :
        /\ pc[c] = "allowed" /\ future_done[c]
        /\ pc[d] = "allowed" /\ ~future_done[d]
        /\ \E e \in DOMAIN pc : RequestState(e) = "Queued"

Appending ==
    {c \in DOMAIN pc : pc[c] = "appending"}
        \cup (IF rel_pc[1] = "appending" THEN {ReleaserThread} ELSE {})

\* C17: under any interleaving of limit() callers and the releaser, threads
\* included, a free slot is observed by at most one of them before it is
\* filled: the threads between a successful capacity check and their append
\* never outnumber the free slots, so each free slot yields one admission.
C17_AtomicAdmission ==
    /\ Len(request_timestamps[1]) + Cardinality(Appending) <= max_requests[1]
    /\ Cardinality(Appending) <= 1

C17_Witness ==
    /\ max_requests[1] = 2
    /\ Len(request_timestamps[1]) = 1
    /\ rel_pc[1] = "clock_read"
    /\ \E c \in DOMAIN pc : pc[c] = "appending"

\* C18: immediately after a pruning step, in limit() or in _wait_for_token,
\* every timestamp left in the window lies in [now - time_window, now] for
\* the time now at which the pruning step runs, also when the clock was read
\* before the lock was acquired.
C18_PrunedWithinWindow ==
    [][\A i \in Instances :
          ((\E c \in DOMAIN pc : lim[c] = i /\ pc[c] = "locked" /\ pc'[c] = "pruned")
              \/ (rel_pc[i] = "locked" /\ rel_pc'[i] = "pruned")) =>
                 \A n \in 1..Len(request_timestamps'[i]) :
                    /\ request_timestamps'[i][n] >= now - time_window[i]
                    /\ request_timestamps'[i][n] <= now]_vars

\* C19: the timestamps of the window are in non-decreasing order, oldest
\* first, in every reachable state, under any interleaving of callers and
\* releaser, threads that read the clock before taking the lock included.
C19_WindowSorted ==
    \A i \in Instances :
        \A n \in 1..(Len(request_timestamps[i]) - 1) :
            request_timestamps[i][n] <= request_timestamps[i][n + 1]

\* C20: the window never holds more than max_requests timestamps, and every
\* append finds fewer than max_requests entries, so that the deque's maxlen
\* never drops a timestamp that is still within time_window: after a step
\* that appends k timestamps the window is its unexpired entries, all of
\* them, followed by the k new ones.
C20_NoEviction ==
    [][\A i \in Instances :
          LET w == request_timestamps[i]
              v == ValidCount(i)
              k == Len(admitted'[i]) - Len(admitted[i])
          IN  /\ Len(request_timestamps'[i]) <= max_requests'[i]
              /\ k > 0 =>
                    /\ v + k <= max_requests[i]
                    /\ Len(request_timestamps'[i]) = v + k
                    /\ \A n \in 1..v :
                          request_timestamps'[i][n] = w[Len(w) - v + n]]_vars

C20_Witness ==
    /\ max_requests[1] = 2
    /\ Len(request_timestamps[1]) = 2
    /\ request_timestamps[1][2] = now
    /\ rel_pc[1] = "sleeping"
    /\ held[1] # NoCaller
    /\ \E d \in DOMAIN pc : pc[d] = "waiting" /\ future_done[d]

\* the number of timestamps instance i holds after the step that are not
\* older than now - time_window
ValidCountAfter(i) ==
    Cardinality({n \in 1..Len(request_timestamps'[i]) :
                    request_timestamps'[i][n] >= now - time_window[i]})

\* C21: a capacity check never counts a timestamp older than
\* now - time_window: whenever limit() sends its caller to the queue, or the
\* releaser goes to sleep with a waiter in hand, the window holds
\* max_requests timestamps that are all within time_window of now.
C21_NoStaleDenial ==
    [][/\ \A c \in DOMAIN pc :
            (Arrives(c) /\ pc'[c] # "allowed") =>
                /\ ValidCount(lim[c]) >= max_requests[lim[c]]
                /\ ValidCountAfter(lim[c]) = Len(request_timestamps'[lim[c]])
       /\ \A i \in Instances :
            (ReleaserRuns(i) /\ rel_pc'[i] = "sleeping") =>
                /\ ValidCountAfter(i) >= max_requests[i]
                /\ ValidCountAfter(i) = Len(request_timestamps'[i])]_vars

C21_Witness ==
    \E c \in DOMAIN pc :
        /\ Waiting(c)
        /\ held[lim[c]] = c
        /\ rel_pc[lim[c]] = "sleeping"
        /\ wake_at[lim[c]] = now + TenthSecond
        /\ Len(request_timestamps[lim[c]]) = max_requests[lim[c]]
        /\ request_timestamps[lim[c]][1] = now - time_window[lim[c]]

\* C22: pruning is idempotent: for every window content and every time,
\* running the prune loop a second time with the same time leaves the window
\* as the first run left it.
C22_PruneIdempotent ==
    [][\A c \in DOMAIN pc :
          (pc[c] = "pruned" /\ pc'[c] = "pruned_again") =>
              request_timestamps' = request_timestamps]_vars

\* the second run was made on a window that still holds an expired
\* timestamp behind a young one
C22_Witness ==
    /\ pc[1] = "pruned_again"
    /\ Len(request_timestamps[1]) = 2
    /\ request_timestamps[1][1] >= local_time[1] - time_window[1]
    /\ request_timestamps[1][2] < local_time[1] - time_window[1]

\* the releaser of instance i fails to obtain a slot in this step and sleeps
ReleaserSleeps(i) == ReleaserRuns(i) /\ rel_pc'[i] = "sleeping"

\* oldest + time_window - now after the failed attempt of this step
WaitTimeAfter(i) == request_timestamps'[i][1] + time_window[i] - now

\* C23: whenever the releaser fails to obtain a slot for the waiter it
\* holds, it sleeps for exactly min(oldest + time_window - now, 1 second),
\* oldest being the front timestamp and now the time of the failed attempt.
C23_SleepIsMin ==
    [][\A i \in Instances :
          ReleaserSleeps(i) =>
              wake_at'[i] - now = Min(WaitTimeAfter(i), OneSecond)]_vars

\* C23 (amended): the sleep is min(oldest + time_window - now, 1 second)
\* when that difference is positive and 0.1 second when it is not; it is
\* never longer than 1 second and never zero.
C23_SleepAmended ==
    [][\A i \in Instances :
          ReleaserSleeps(i) =>
              /\ WaitTimeAfter(i) > 0 =>
                    wake_at'[i] - now = Min(WaitTimeAfter(i), OneSecond)
              /\ WaitTimeAfter(i) <= 0 => wake_at'[i] - now = TenthSecond
              /\ wake_at'[i] - now <= OneSecond
              /\ wake_at'[i] - now > 0]_vars

C23_Witness ==
    /\ rel_pc[1] = "sleeping"
    /\ held[1] # NoCaller
    /\ request_timestamps[1][1] + time_window[1] - now = 0
    /\ wake_at[1] = now + TenthSecond
    /\ now > 0

\* the waiters of instance i that were taken from the queue and are not yet
\* resolved, by the history of the queue
TakenUnresolved(i) ==
    {c \in {enqueued[i][n] : n \in 1..Len(enqueued[i])} :
        /\ ~future_done[c]
        /\ \A n \in 1..Len(request_queue[i]) : request_queue[i][n] # c}

\* C24: the releaser of an instance holds at most one waiter that is taken
\* from the queue and not yet resolved, namely the one in its hand, and it
\* takes the next waiter only after it has obtained a slot for the current
\* one and resolved it.
C24_OneWaiterInHand ==
    [][\A i \in Instances :
          /\ Cardinality(TakenUnresolved(i)') <= 1
          /\ TakenUnresolved(i)' = (IF held'[i] = NoCaller THEN {} ELSE {held'[i]})
          /\ (held[i] # NoCaller /\ held'[i] # held[i]) =>
                /\ future_done'[held[i]]
                /\ Len(admitted'[i]) > Len(admitted[i])]_vars

C24_Witness ==
    \E c, d \in DOMAIN pc :
        /\ c # d
        /\ held[1] = c /\ Waiting(c)
        /\ rel_pc[1] = "sleeping"
        /\ request_queue[1] = <<d>> /\ Waiting(d)
        /\ \E e \in DOMAIN pc : pc[e] = "waiting" /\ future_done[e]

\* C25: the fast path does not look at the queue: a caller is Allowed at
\* once exactly when the window has a free slot at its arrival, also while
\* earlier callers of the same limiter are still queued or in the releaser's
\* hand, so a later caller can overtake an earlier one (the witness).
C25_FastPathIgnoresQueue ==
    [][\A c \in DOMAIN pc :
          Arrives(c) =>
              (pc'[c] = "allowed" <=> ValidCount(lim[c]) < max_requests[lim[c]])]_vars

\* a caller was Allowed on the fast path at time now, while the releaser
\* sleeps, since before now, on an earlier caller's waiter
C25_Witness ==
    \E c, d \in DOMAIN pc :
        /\ max_requests[1] = 1
        /\ held[1] = d /\ Waiting(d)
        /\ rel_pc[1] = "sleeping" /\ wake_at[1] <= now
        /\ request_timestamps[1] = <<now>>
        /\ pc[c] = "allowed" /\ ~future_done[c]
        /\ \A e \in DOMAIN pc : e \notin {c, d} => pc[e] = "bound"

\* caller c has a waiter in the queue of its limiter
InQueue(c) ==
    \E n \in 1..Len(request_queue[lim[c]]) : request_queue[lim[c]][n] = c

\* C26: a limit() call that is to be Rejected (window full, queue holding
\* max_queue_size waiters) leaves the limiter as if it had not been made,
\* apart from pruning: nothing is appended, nothing of it is kept in the
\* queue or beside it, and the limiter does not retry it: a waiter enters
\* the queue only in the step of its caller's own limit() call.
C26_RejectedLeavesNoTrace ==
    [][\A c \in DOMAIN pc :
          /\ (CallsOnFullWindow(c)
              /\ Len(request_queue[lim[c]]) >= max_queue_size[lim[c]]) =>
                 /\ request_queue' = request_queue
                 /\ putters' = putters
                 /\ held' = held
                 /\ admitted' = admitted
                 /\ Len(request_timestamps'[lim[c]]) <= Len(request_timestamps[lim[c]])
          /\ (~InQueue(c) /\ InQueue(c)') => Arrives(c)]_vars

\* C27: pruning, the capacity check and the wait-time computation never
\* fail: when the releaser, after a failed capacity check and outside the
\* lock, reads the oldest timestamp, the window is not empty, and the
\* releaser task does not end, under any interleaving with limit() callers,
\* threads included.
C27_OldestReadable ==
    \A i \in Instances :
        /\ rel_pc[i] = "unlocked" => request_timestamps[i] # <<>>
        /\ rel_pc[i] # "failed"

\* the callers of instance i that limit() admits on the fast path in this step
FastPathNow(i) ==
    {c \in DOMAIN pc : lim[c] = i /\ Arrives(c) /\ pc'[c] = "allowed"}

\* the callers of instance i whose waiter the releaser resolves in this step
ResolvedNow(i) ==
    {c \in DOMAIN pc : lim[c] = i /\ ~future_done[c] /\ future_done'[c]}

\* the number of timestamps of w that are equal to t
CountAt(w, t) == Cardinality({n \in 1..Len(w) : w[n] = t})

\* C28: slot accounting: in every step of a limit() call or of the releaser,
\* the number of timestamps appended to the window is the number of callers
\* admitted on the fast path plus the number of waiters the releaser
\* resolves, and a caller comes out of limit() Allowed only on the fast path
\* or with its waiter resolved, so each Allowed outcome has its one timestamp.
C28_SlotAccounting ==
    [][/\ \A i \in Instances :
            (ReleaserRuns(i) \/ \E c \in DOMAIN pc : lim[c] = i /\ Arrives(c)) =>
                CountAt(request_timestamps'[i], now) - CountAt(request_timestamps[i], now)
                    = Cardinality(FastPathNow(i)) + Cardinality(ResolvedNow(i))
       /\ \A c \in DOMAIN pc :
            (pc[c] # "allowed" /\ pc'[c] = "allowed") =>
                c \in FastPathNow(lim[c]) \/ (pc[c] = "waiting" /\ future_done[c])]_vars

C28_Witness ==
    /\ request_timestamps[1] = <<now, now>>
    /\ \E c, d \in DOMAIN pc :
          /\ c # d
          /\ pc[c] = "waiting" /\ future_done[c]
          /\ pc[d] = "waiting" /\ future_done[d]

\* where a thread is inside `with self.lock`
InSection == {"locked", "pruned", "appending"}

\* the threads that are inside `with self.lock`, by their position
SectionThreads ==
    {c \in DOMAIN pc : pc[c] \in InSection}
        \cup (IF rel_pc[1] \in InSection THEN {ReleaserThread} ELSE {})

\* C29: the lock is never held across a suspension point: its holders are
\* exactly the threads inside the locked block, at most one, so a caller that
\* is enqueuing, blocked in Queue.put or waiting on its waiter, and a
\* releaser that waits on the queue or sleeps, do not hold it, and the
\* holder can always go on to release it.
C29_LockNotHeldSuspended ==
    /\ lock = SectionThreads
    /\ Cardinality(lock) <= 1
    /\ \A c \in DOMAIN pc :
          pc[c] \in {"unlocked", "put_blocked", "put_woken", "waiting"} => c \notin lock
    /\ rel_pc[1] \in {"ready", "get_blocked", "sleeping", "unlocked"} =>
          ReleaserThread \notin lock

C29_Witness ==
    \E c, d \in DOMAIN pc :
        /\ Waiting(c)
        /\ held[1] = c
        /\ rel_pc[1] = "sleeping"
        /\ pc[d] = "pruned"
        /\ lock = {d}

====
